---------------------------- MODULE Spec2Model ----------------------------
(***************************************************************************)
(* A model of firebase-token: the JWK fetcher outcome, the JwkVerifier      *)
(* (key map, config, verify), and the JwkAuth coordinator (initial fetch,   *)
(* tokio Mutex around the verifier, background refresh loop, concurrent     *)
(* verify callers).                                                         *)
(***************************************************************************)
EXTENDS Integers, Sequences, FiniteSets, TLC

VARIABLES
    ctor,       \* JwkAuth::new_with_url: its position and its project id
    verifier,   \* Option: the JwkVerifier behind the Arc<Mutex<..>>
    holder,     \* Option: the task holding the tokio Mutex
    waitq,      \* tasks suspended in lock().await, in FIFO order
    loop,       \* the task spawned by start_periodic_key_update
    readers,    \* the concurrent callers of JwkAuth::verify
    installed,  \* history: the key list last given to JwkVerifier::new / set_keys
    call        \* the last direct call on a JwkVerifier (verifier-only specification)

vars == <<ctor, verifier, holder, waitq, loop, readers, installed, call>>

(***************************************************************************)
(* Bounds of the model.                                                     *)
(***************************************************************************)
NumReaders == 2
MaxKeys == 2

(***************************************************************************)
(* Program constants.                                                       *)
(***************************************************************************)
ISSUER_URL == "https://securetoken.google.com/"
DEFAULT_TIMEOUT == 60
FAILURE_DELAY == 10

\* Option<T>: None is the empty sequence, Some(x) the sequence holding x.
None == << >>
Some(x) == << x >>
Unwrap(opt) == opt[1]

\* Tasks: the refresh task, and the callers of verify.
Refresher == 0
Readers == 1..NumReaders

(***************************************************************************)
(* Jwk: one public key.  Two key identifiers, two well-formed moduli, one   *)
(* modulus that is not base64url, one algorithm name jsonwebtoken does not  *)
(* know.                                                                    *)
(***************************************************************************)
Kids == {"kid-0", "kid-1"}

Jwk(kid, alg, n) ==
    [kid |-> kid, alg |-> alg, n |-> n, e |-> "AQAB", kty |-> "RSA", use |-> "sig"]

JwkUniverse ==
    { Jwk("kid-0", "RS256", "n-a"),
      Jwk("kid-0", "RS256", "n-b"),
      Jwk("kid-1", "RS256", "n-b"),
      Jwk("kid-1", "XS256", "n-a"),
      Jwk("kid-1", "RS256", "n=bad") }

RECURSIVE SeqsUpTo(_, _)
SeqsUpTo(S, n) ==
    IF n = 0 THEN { <<>> }
    ELSE LET shorter == SeqsUpTo(S, n - 1)
         IN  shorter \cup { Append(s, x) : s \in { t \in shorter : Len(t) = n - 1 }, x \in S }

KeyLists == SeqsUpTo(JwkUniverse, MaxKeys)

KidsOf(keys) == { keys[i].kid : i \in 1..Len(keys) }

(***************************************************************************)
(* std::collections::HashMap<String, Jwk>, as a function on its key set.    *)
(***************************************************************************)
EmptyMap == [k \in {} |-> ""]

HashMap_insert_keep_first(m, k, v) ==
    IF k \in DOMAIN m THEN m ELSE [x \in DOMAIN m \cup {k} |-> IF x = k THEN v ELSE m[x]]

HashMap_insert(m, k, v) ==
    [x \in DOMAIN m \cup {k} |-> IF x = k THEN v ELSE m[x]]

HashMap_get(m, k) == IF k \in DOMAIN m THEN Some(m[k]) ELSE None

RECURSIVE insert_all(_, _)
insert_all(m, keys) ==
    IF keys = <<>> THEN m
    ELSE insert_all(HashMap_insert(m, Head(keys).kid, Head(keys)), Tail(keys))

keys_to_map(keys) == insert_all(EmptyMap, keys)

(***************************************************************************)
(* JwkVerifier.                                                             *)
(***************************************************************************)
JwkVerifier_new(keys, audience, issuer) ==
    [keys |-> keys_to_map(keys), config |-> [audience |-> audience, issuer |-> issuer]]

get_key(v, key_id) == HashMap_get(v.keys, key_id)

\* A variant of set_keys that rebuilds the verifier without its configuration.
set_keys_rebuilds(v, keys) == JwkVerifier_new(keys, "", "")

set_keys_merge(v, keys) == [v EXCEPT !.keys = insert_all(v.keys, keys)]

set_keys(v, keys) == [v EXCEPT !.keys = keys_to_map(keys)]

(***************************************************************************)
(* Tokens.  A token is described by what jsonwebtoken reads from it: whether *)
(* its header parses, the header's kid and alg, the RSA key (by modulus)    *)
(* whose private half signed it, and the aud, iss, sub, exp of its payload. *)
(* The payload is of the BasicClaims shape: aud and iss are single strings  *)
(* and exp is present, "future" when jsonwebtoken's expiry check passes.    *)
(***************************************************************************)
ProjectIds == {"pj", "other"}

issuer_of(project_id) == ISSUER_URL \o project_id

Token(hdr, kid, alg, signer, aud, iss, exp) ==
    [hdr |-> hdr, kid |-> kid, alg |-> alg, signer |-> signer,
     aud |-> aud, iss |-> iss, sub |-> "user", exp |-> exp]

MalformedToken == Token("malformed", None, "", "", "", "", "")

AllTokens ==
    { MalformedToken } \cup
    { Token("ok", kid, alg, signer, aud, iss, exp) :
        kid \in { Some(k) : k \in Kids } \cup {None}, alg \in {"RS256", "RS384"}, signer \in {"n-a", "n-b"},
        aud \in ProjectIds, iss \in { issuer_of(p) : p \in ProjectIds },
        exp \in {"future", "past"} }

ClaimsOf(token) ==
    [aud |-> token.aud, iss |-> token.iss, sub |-> token.sub, exp |-> token.exp]

(***************************************************************************)
(* The jsonwebtoken calls the verifier makes.                               *)
(***************************************************************************)
Ok(value) == [ok |-> TRUE, value |-> value]
Err(error) == [ok |-> FALSE, error |-> error]

\* decode_header(token).map(|header| header.kid)
decode_header_kid(token) ==
    IF token.hdr = "ok" THEN Ok(token.kid) ELSE Err("InvalidToken")

KnownAlgorithms ==
    {"HS256", "HS384", "HS512", "ES256", "ES384",
     "RS256", "RS384", "RS512", "PS256", "PS384", "PS512", "EdDSA"}

Algorithm_from_str(alg) ==
    IF alg \in KnownAlgorithms THEN Ok(alg) ELSE Err("InvalidAlgorithmName")

Base64Url == {"n-a", "n-b", "AQAB", "n-string"}

DecodingKey_from_rsa_components(n, e) ==
    IF n \in Base64Url /\ e \in Base64Url THEN Ok([n |-> n, e |-> e]) ELSE Err("Base64")

\* decode::<C>(token, &key, &validation): the header's alg is one the validation
\* allows, the signature verifies under the key, then exp, aud and iss validate.
SignatureValid(token, key, algorithm) ==
    /\ token.alg = algorithm
    /\ token.signer = key.n

decode(token, key, validation) ==
    IF token.hdr # "ok" THEN Err("InvalidToken")
    ELSE IF token.alg \notin validation.algorithms THEN Err("InvalidAlgorithm")
    ELSE IF ~(\E a \in validation.algorithms : SignatureValid(token, key, a))
         THEN Err("InvalidSignature")
    ELSE IF token.exp # "future" THEN Err("ExpiredSignature")
    ELSE IF token.aud \notin validation.aud THEN Err("InvalidAudience")
    ELSE IF token.iss \notin validation.iss THEN Err("InvalidIssuer")
    ELSE Ok(ClaimsOf(token))

(***************************************************************************)
(* JwkVerifier::decode_token_with_key and JwkVerifier::verify.  Each yields *)
(* its result and the tracing records it emitted.                           *)
(***************************************************************************)
Outcome(result, logged) == [result |-> result, logged |-> logged]

\* Variants of decode_token_with_key with one slip each.
decode_token_with_key_no_audience(v, key, token) ==
    LET algorithm == Algorithm_from_str(key.alg)
    IN  IF ~algorithm.ok THEN Outcome(Err("UnknownKeyAlgorithm"), <<>>)
        ELSE LET validation == [algorithms |-> {algorithm.value},
                                aud |-> ProjectIds,
                                iss |-> {v.config.issuer}]
                 dkey == DecodingKey_from_rsa_components(key.n, key.e)
             IN  IF ~dkey.ok
                 THEN Outcome(Err("InvalidDecodingKey"),
                              << [level |-> "error", msg |-> "InvalidDecodingKey", detail |-> dkey.error] >>)
                 ELSE LET decoded == decode(token, dkey.value, validation)
                      IN  IF decoded.ok THEN Outcome(decoded, <<>>)
                          ELSE Outcome(Err("InvalidSignature"), <<>>)

decode_token_with_key_issuer_as_audience(v, key, token) ==
    LET algorithm == Algorithm_from_str(key.alg)
    IN  IF ~algorithm.ok THEN Outcome(Err("UnknownKeyAlgorithm"), <<>>)
        ELSE LET validation == [algorithms |-> {algorithm.value},
                                aud |-> {v.config.issuer},
                                iss |-> {v.config.issuer}]
                 dkey == DecodingKey_from_rsa_components(key.n, key.e)
             IN  IF ~dkey.ok
                 THEN Outcome(Err("InvalidDecodingKey"),
                              << [level |-> "error", msg |-> "InvalidDecodingKey", detail |-> dkey.error] >>)
                 ELSE LET decoded == decode(token, dkey.value, validation)
                      IN  IF decoded.ok THEN Outcome(decoded, <<>>)
                          ELSE Outcome(Err("InvalidSignature"), <<>>)

decode_token_with_key_logs_signature(v, key, token) ==
    LET algorithm == Algorithm_from_str(key.alg)
    IN  IF ~algorithm.ok THEN Outcome(Err("UnknownKeyAlgorithm"), <<>>)
        ELSE LET validation == [algorithms |-> {algorithm.value},
                                aud |-> {v.config.audience},
                                iss |-> {v.config.issuer}]
                 dkey == DecodingKey_from_rsa_components(key.n, key.e)
             IN  IF ~dkey.ok
                 THEN Outcome(Err("InvalidDecodingKey"),
                              << [level |-> "error", msg |-> "InvalidDecodingKey", detail |-> dkey.error] >>)
                 ELSE LET decoded == decode(token, dkey.value, validation)
                      IN  IF decoded.ok THEN Outcome(decoded, <<>>)
                          ELSE Outcome(Err("InvalidSignature"),
                                       << [level |-> "error", msg |-> "InvalidSignature", detail |-> decoded.error] >>)

decode_token_with_key_defaults_algorithm(v, key, token) ==
    LET algorithm == Algorithm_from_str(key.alg)
    IN  LET validation == [algorithms |-> {IF algorithm.ok THEN algorithm.value ELSE "RS256"},
                           aud |-> {v.config.audience},
                           iss |-> {v.config.issuer}]
            dkey == DecodingKey_from_rsa_components(key.n, key.e)
        IN  IF ~dkey.ok
            THEN Outcome(Err("InvalidDecodingKey"),
                         << [level |-> "error", msg |-> "InvalidDecodingKey", detail |-> dkey.error] >>)
            ELSE LET decoded == decode(token, dkey.value, validation)
                 IN  IF decoded.ok THEN Outcome(decoded, <<>>)
                     ELSE Outcome(Err("InvalidSignature"), <<>>)

decode_token_with_key(v, key, token) ==
    LET algorithm == Algorithm_from_str(key.alg)
    IN  IF ~algorithm.ok THEN Outcome(Err("UnknownKeyAlgorithm"), <<>>)
        ELSE LET validation == [algorithms |-> {algorithm.value},
                                aud |-> {v.config.audience},
                                iss |-> {v.config.issuer}]
                 dkey == DecodingKey_from_rsa_components(key.n, key.e)
             IN  IF ~dkey.ok
                 THEN Outcome(Err("InvalidDecodingKey"),
                              << [level |-> "error", msg |-> "InvalidDecodingKey", detail |-> dkey.error] >>)
                 ELSE LET decoded == decode(token, dkey.value, validation)
                      IN  IF decoded.ok THEN Outcome(decoded, <<>>)
                          ELSE Outcome(Err("InvalidSignature"), <<>>)

verify(v, token) ==
    LET token_kid == decode_header_kid(token)
    IN  IF ~token_kid.ok \/ token_kid.value = None THEN Outcome(None, <<>>)
        ELSE LET jwk_key == get_key(v, Unwrap(token_kid.value))
             IN  IF jwk_key = None THEN Outcome(None, <<>>)
                 ELSE LET decoded == decode_token_with_key(v, Unwrap(jwk_key), token)
                      IN  IF decoded.result.ok
                          THEN Outcome(Some(decoded.result.value), decoded.logged)
                          ELSE Outcome(None, decoded.logged)

(***************************************************************************)
(* The state before JwkAuth::new_with_url is called.                        *)
(***************************************************************************)
IdleCtor == [pc |-> "start", project_id |-> "", fetch |-> ""]
IdleLoop == [pc |-> "notstarted", fetched |-> None, delay |-> 0, slept |-> 0,
             before |-> None, prev |-> "", due |-> 0, waited |-> 0]
IdleReader == [pc |-> "idle", token |-> None, out |-> None, seen |-> None]

\* History of the key lists given to the verifier: the list it holds now, the
\* operation that gave it, and the kids that were resolvable just before it.
Installed(keys, before, by) == [keys |-> keys, before |-> before, by |-> by]

(***************************************************************************)
(* The verifier alone: a JwkVerifier built from any key list and any        *)
(* config, on which set_keys, get_key and verify are called one after the   *)
(* other, in any order, with any arguments.  `call` holds the last call and *)
(* what it returned until the caller drops it.                              *)
(***************************************************************************)
VInit ==
    /\ \E keys \in KeyLists, project_id \in ProjectIds :
            /\ verifier = Some(JwkVerifier_new(keys, project_id, issuer_of(project_id)))
            /\ installed = Some(Installed(keys, {}, "new"))
    /\ call = None
    /\ ctor = IdleCtor
    /\ loop = IdleLoop
    /\ readers = [r \in Readers |-> IdleReader]
    /\ holder = None
    /\ waitq = << >>

VSetKeys ==
    \E keys \in KeyLists :
        /\ call = None
        /\ verifier' = Some(set_keys(Unwrap(verifier), keys))
        /\ installed' = Some(Installed(keys, DOMAIN Unwrap(verifier).keys, "set_keys"))
        /\ call' = Some([op |-> "set_keys"])
        /\ UNCHANGED <<ctor, loop, readers, holder, waitq>>

VGetKey ==
    \E key_id \in Kids :
        /\ call = None
        /\ call' = Some([op |-> "get_key", key_id |-> key_id,
                         ret |-> get_key(Unwrap(verifier), key_id)])
        /\ UNCHANGED <<verifier, installed, ctor, loop, readers, holder, waitq>>

VVerify ==
    \E token \in AllTokens :
        /\ call = None
        /\ call' = Some([op |-> "verify", token |-> token,
                         out |-> verify(Unwrap(verifier), token)])
        /\ UNCHANGED <<verifier, installed, ctor, loop, readers, holder, waitq>>

VDrop ==
    /\ call # None
    /\ call' = None
    /\ UNCHANGED <<verifier, installed, ctor, loop, readers, holder, waitq>>

VNext == VSetKeys \/ VGetKey \/ VVerify \/ VDrop

VerifierSpec == VInit /\ [][VNext]_vars

(***************************************************************************)
(* JwkFetcher::fetch_keys.  A response is what reqwest::get yields: a       *)
(* transport failure, or a response with its Cache-Control header (absent,  *)
(* or the list of its comma-separated directives) and its body as           *)
(* json::<KeyResponse>() reads it (the key list, or None when the body is   *)
(* not of the key-set shape).                                               *)
(***************************************************************************)
MaxDirectives == 2

\* A directive "name" (value None) or "name=value".
Directive(name, value) == [name |-> name, value |-> value]

DirectiveUniverse ==
    { Directive("public", None), Directive("must-revalidate", None),
      Directive("max-age", Some("20045")), Directive("max-age", Some("20")),
      Directive("max-age", Some("soon")) }

\* str::parse::<u64> on the directive values that occur
parse_u64(str) ==
    CASE str = "20045" -> Some(20045)
      [] str = "20"    -> Some(20)
      [] OTHER         -> None

\* The Cache-Control headers: absent, or up to MaxDirectives directives of which
\* at most one is a max-age.
CacheControls ==
    { None } \cup
    { Some(ds) : ds \in { d \in SeqsUpTo(DirectiveUniverse, MaxDirectives) :
                            Cardinality({ i \in 1..Len(d) : d[i].name = "max-age" }) <= 1 } }

Response(transport, cache_control, body) ==
    [transport |-> transport, cache_control |-> cache_control, body |-> body]

\* header_parser::get_max_age: the value of the max-age directive of the
\* Cache-Control header, when the header has one and its value parses.
get_max_age(response) ==
    IF response.cache_control = None THEN None
    ELSE LET ds == Unwrap(response.cache_control)
             at == { i \in 1..Len(ds) : ds[i].name = "max-age" }
         IN  IF at = {} THEN None
             ELSE LET d == ds[CHOOSE i \in at : \A j \in at : i <= j]
                  IN  IF d.value = None THEN None ELSE parse_u64(Unwrap(d.value))

unwrap_or(opt, default) == IF opt = None THEN default ELSE Unwrap(opt)

\* A variant of fetch_keys that fails when the response carries no max-age.
fetch_keys_requires_max_age(response) ==
    IF response.transport # "ok" THEN Err("RequestError")
    ELSE IF get_max_age(response) = None THEN Err("RequestError")
    ELSE IF response.body = None THEN Err("ReponseBodyError")
    ELSE Ok([keys |-> Unwrap(response.body), validity |-> Unwrap(get_max_age(response))])

fetch_keys(response) ==
    IF response.transport # "ok" THEN Err("RequestError")
    ELSE LET max_age == unwrap_or(get_max_age(response), DEFAULT_TIMEOUT)
         IN  IF response.body = None THEN Err("ReponseBodyError")
             ELSE Ok([keys |-> Unwrap(response.body), validity |-> max_age])

\* A variant of the call that asks the endpoint again when the first answer fails.
fetch_keys_call_retries(answers) ==
    IF fetch_keys(answers[1]).ok THEN [ret |-> fetch_keys(answers[1]), requests |-> 1]
    ELSE [ret |-> fetch_keys(answers[2]), requests |-> 2]

\* One call of fetch_keys against an endpoint that would give answers[i] to the
\* i-th request: reqwest::get is awaited once, and what it yields decides the call.
fetch_keys_call(answers) == [ret |-> fetch_keys(answers[1]), requests |-> 1]

\* The responses the endpoint gives in the coordinator's specification: two key
\* generations (the second rotates kid-0 and drops kid-1), an empty key set, with
\* and without a max-age, and the two failures.
GenA == << Jwk("kid-0", "RS256", "n-a"), Jwk("kid-1", "RS256", "n-b") >>
GenB == << Jwk("kid-0", "RS256", "n-b") >>

\* "public, max-age=20, must-revalidate"
MaxAge20 ==
    Some(<< Directive("public", None), Directive("max-age", Some("20")),
            Directive("must-revalidate", None) >>)

Responses ==
    { Response("error", None, None),
      Response("ok", MaxAge20, None),
      Response("ok", MaxAge20, Some(GenA)),
      Response("ok", None, Some(GenB)),
      Response("ok", MaxAge20, Some(<< >>)) }

\* The tokens callers present in the coordinator's specification.
SysTokens ==
    { Token("ok", Some("kid-0"), "RS256", "n-a", "pj", issuer_of("pj"), "future"),
      Token("ok", Some("kid-1"), "RS256", "n-b", "pj", issuer_of("pj"), "future"),
      Token("ok", Some("kid-0"), "RS256", "n-b", "other", issuer_of("pj"), "future") }

\* The amounts by which the clock is observed to advance during a sleep.
TickSizes == { FAILURE_DELAY, DEFAULT_TIMEOUT }

Min(a, b) == IF a <= b THEN a ELSE b

(***************************************************************************)
(* The fetcher on its own: calls of fetch_keys against every endpoint.      *)
(***************************************************************************)
\* What the endpoint would answer to a second request.
SecondAnswers == { Response("error", None, None), Response("ok", MaxAge20, Some(GenA)) }

AllResponses ==
    { Response("error", None, None) } \cup
    { Response("ok", cc, body) : cc \in CacheControls,
                                 body \in { None } \cup { Some(keys) : keys \in KeyLists } }

FInit ==
    /\ ctor = IdleCtor
    /\ verifier = None
    /\ holder = None
    /\ waitq = << >>
    /\ loop = IdleLoop
    /\ readers = [r \in Readers |-> IdleReader]
    /\ installed = None
    /\ call = None

\* fetcher.fetch_keys().await
FFetchKeys ==
    \E response \in AllResponses, second \in SecondAnswers :
        /\ call = None
        /\ call' = Some([op |-> "fetch_keys", response |-> response,
                         out |-> fetch_keys_call(<< response, second >>)])
        /\ UNCHANGED <<ctor, verifier, holder, waitq, loop, readers, installed>>

\* the caller consumes the result
FDrop ==
    /\ call # None
    /\ call' = None
    /\ UNCHANGED <<ctor, verifier, holder, waitq, loop, readers, installed>>

FNext == FFetchKeys \/ FDrop

FetcherSpec == FInit /\ [][FNext]_vars

(***************************************************************************)
(* JwkAuth: construction.                                                   *)
(***************************************************************************)
Init ==
    /\ ctor = IdleCtor
    /\ verifier = None
    /\ holder = None
    /\ waitq = << >>
    /\ loop = IdleLoop
    /\ readers = [r \in Readers |-> IdleReader]
    /\ installed = None
    /\ call = None

\* new_with_url up to the initial fetch_keys().await
NewWithUrl ==
    \E project_id \in ProjectIds :
        /\ ctor.pc = "start"
        /\ ctor' = [pc |-> "fetching", project_id |-> project_id, fetch |-> ""]
        /\ UNCHANGED <<verifier, holder, waitq, loop, readers, installed, call>>

\* The loop at the top of an iteration.  History, kept until this iteration's
\* fetch succeeds or its sleep ends: prev is the outcome of the fetch before
\* ("" for the initial one), due the delay that fetch determined, and waited the
\* time the loop has slept since.
NextIteration(prev, due, waited) ==
    [IdleLoop EXCEPT !.pc = "fetch", !.prev = prev, !.due = due, !.waited = waited]

\* start_periodic_key_update: tokio::spawn of the loop, which begins with a fetch;
\* validity is the initial fetch's, which the loop is not given
start_periodic_key_update(validity) == NextIteration("", validity, 0)

\* the initial fetch succeeded: the verifier is built, the loop spawned, JwkAuth returned
InitialFetchOk ==
    \E response \in Responses :
        /\ ctor.pc = "fetching"
        /\ fetch_keys(response).ok
        /\ LET jwk_keys == fetch_keys(response).value
               audience == ctor.project_id
               issuer == issuer_of(ctor.project_id)
           IN  /\ verifier' = Some(JwkVerifier_new(jwk_keys.keys, audience, issuer))
               /\ installed' = Some(Installed(jwk_keys.keys, {}, "new"))
        /\ loop' = start_periodic_key_update(fetch_keys(response).value.validity)
        /\ ctor' = [ctor EXCEPT !.pc = "done", !.fetch = "Ok"]
        /\ UNCHANGED <<holder, waitq, readers, call>>

\* A variant that goes on with no keys where the code panics.
InitialFetchErr_continues ==
    \E response \in Responses :
        /\ ctor.pc = "fetching"
        /\ ~fetch_keys(response).ok
        /\ verifier' = Some(JwkVerifier_new(<< >>, ctor.project_id, issuer_of(ctor.project_id)))
        /\ installed' = Some(Installed(<< >>, {}, "new"))
        /\ loop' = start_periodic_key_update(0)
        /\ ctor' = [ctor EXCEPT !.pc = "done", !.fetch = fetch_keys(response).error]
        /\ UNCHANGED <<holder, waitq, readers, call>>

\* the initial fetch failed: panic!
InitialFetchErr ==
    \E response \in Responses :
        /\ ctor.pc = "fetching"
        /\ ~fetch_keys(response).ok
        /\ ctor' = [ctor EXCEPT !.pc = "panicked", !.fetch = fetch_keys(response).error]
        /\ UNCHANGED <<verifier, holder, waitq, loop, readers, installed, call>>

(***************************************************************************)
(* The tokio Mutex: lock().await queues the task; the lock goes to the task *)
(* at the head of the queue when it is free; dropping the guard frees it.   *)
(***************************************************************************)
CanAcquire(task) == holder = None /\ waitq # << >> /\ Head(waitq) = task

(***************************************************************************)
(* JwkAuth: the refresh loop.                                               *)
(***************************************************************************)
\* loop { fetcher.fetch_keys() ...
LoopIssueFetch ==
    /\ loop.pc = "fetch"
    /\ loop' = [loop EXCEPT !.pc = "awaiting", !.before = verifier]
    /\ UNCHANGED <<ctor, verifier, holder, waitq, readers, installed, call>>

\* ... .await is Ok(jwk_keys): verifier.lock() ...
LoopFetchOk ==
    \E response \in Responses :
        /\ loop.pc = "awaiting"
        /\ fetch_keys(response).ok
        /\ loop' = [loop EXCEPT !.pc = "locking", !.fetched = Some(fetch_keys(response).value),
                                !.prev = "", !.due = 0, !.waited = 0]
        /\ waitq' = Append(waitq, Refresher)
        /\ UNCHANGED <<ctor, verifier, holder, readers, installed, call>>

\* ... .await
LoopAcquire ==
    /\ loop.pc = "locking"
    /\ CanAcquire(Refresher)
    /\ holder' = Some(Refresher)
    /\ waitq' = Tail(waitq)
    /\ loop' = [loop EXCEPT !.pc = "locked"]
    /\ UNCHANGED <<ctor, verifier, readers, installed, call>>

\* verifier.set_keys(jwk_keys.keys)
LoopSetKeys ==
    /\ loop.pc = "locked"
    /\ verifier' = Some(set_keys(Unwrap(verifier), Unwrap(loop.fetched).keys))
    /\ installed' = Some(Installed(Unwrap(loop.fetched).keys, DOMAIN Unwrap(verifier).keys, "set_keys"))
    /\ loop' = [loop EXCEPT !.pc = "installed"]
    /\ UNCHANGED <<ctor, holder, waitq, readers, call>>

\* A variant of the Ok arm whose guard lives until the end of the iteration.
LoopRelease_keeps_lock ==
    /\ loop.pc = "installed"
    /\ loop' = [loop EXCEPT !.pc = "sleeping", !.delay = Unwrap(loop.fetched).validity, !.slept = 0]
    /\ UNCHANGED <<ctor, verifier, holder, waitq, readers, installed, call>>

\* the arm ends: the guard is dropped, delay = jwk_keys.validity, sleep(delay) begins
LoopRelease ==
    /\ loop.pc = "installed"
    /\ holder' = None
    /\ loop' = [loop EXCEPT !.pc = "sleeping", !.delay = Unwrap(loop.fetched).validity, !.slept = 0]
    /\ UNCHANGED <<ctor, verifier, waitq, readers, installed, call>>

\* A variant of the Err arm that empties the key map.
LoopFetchErr_clears ==
    \E response \in Responses :
        /\ loop.pc = "awaiting"
        /\ ~fetch_keys(response).ok
        /\ loop' = [loop EXCEPT !.pc = "sleeping", !.delay = FAILURE_DELAY, !.slept = 0]
        /\ verifier' = Some(set_keys(Unwrap(verifier), << >>))
        /\ UNCHANGED <<ctor, holder, waitq, readers, installed, call>>

\* A variant of the Err arm that leaves the loop.
LoopFetchErr_breaks ==
    \E response \in Responses :
        /\ loop.pc = "awaiting"
        /\ ~fetch_keys(response).ok
        /\ loop' = [loop EXCEPT !.pc = "exited"]
        /\ UNCHANGED <<ctor, verifier, holder, waitq, readers, installed, call>>

\* ... .await is Err(err): delay = Duration::from_secs(10), sleep(delay) begins
LoopFetchErr ==
    \E response \in Responses :
        /\ loop.pc = "awaiting"
        /\ ~fetch_keys(response).ok
        /\ loop' = [loop EXCEPT !.pc = "sleeping", !.delay = FAILURE_DELAY, !.slept = 0]
        /\ UNCHANGED <<ctor, verifier, holder, waitq, readers, installed, call>>

\* time advances while the loop is in tokio::time::sleep(delay)
TimePasses ==
    \E d \in TickSizes :
        /\ loop.pc = "sleeping"
        /\ loop.slept < loop.delay
        /\ loop' = [loop EXCEPT !.slept = Min(loop.slept + d, loop.delay)]
        /\ UNCHANGED <<ctor, verifier, holder, waitq, readers, installed, call>>

\* A variant of the sleep that returns before the delay has elapsed.
LoopWake_early ==
    /\ loop.pc = "sleeping"
    /\ loop' = NextIteration(IF loop.fetched = None THEN "Err" ELSE "Ok", loop.delay, loop.slept)
    /\ UNCHANGED <<ctor, verifier, holder, waitq, readers, installed, call>>

\* A variant of the wake-up that drops the cached keys once their validity is over.
LoopWake_expires_keys ==
    /\ loop.pc = "sleeping"
    /\ loop.slept >= loop.delay
    /\ loop' = NextIteration(IF loop.fetched = None THEN "Err" ELSE "Ok", loop.delay, loop.slept)
    /\ verifier' = IF loop.fetched = None THEN verifier
                   ELSE Some(set_keys(Unwrap(verifier), << >>))
    /\ UNCHANGED <<ctor, holder, waitq, readers, installed, call>>

\* sleep(delay).await returns: the next iteration
LoopWake ==
    /\ loop.pc = "sleeping"
    /\ loop.slept >= loop.delay
    /\ loop' = NextIteration(IF loop.fetched = None THEN "Err" ELSE "Ok", loop.delay, loop.slept)
    /\ UNCHANGED <<ctor, verifier, holder, waitq, readers, installed, call>>

(***************************************************************************)
(* JwkAuth::verify, called by any holder of the JwkAuth value.              *)
(***************************************************************************)
\* self.verifier.lock() ...
ReaderCall(r) ==
    \E token \in SysTokens :
        /\ ctor.pc = "done"
        /\ readers[r].pc = "idle"
        /\ readers' = [readers EXCEPT ![r] = [IdleReader EXCEPT !.pc = "waiting", !.token = Some(token)]]
        /\ waitq' = Append(waitq, r)
        /\ UNCHANGED <<ctor, verifier, holder, loop, installed, call>>

\* A variant of the acquisition that does not wait for the lock to be free.
ReaderAcquire_unlocked(r) ==
    /\ readers[r].pc = "waiting"
    /\ waitq # << >> /\ Head(waitq) = r
    /\ waitq' = Tail(waitq)
    /\ readers' = [readers EXCEPT ![r].pc = "holding", ![r].seen = verifier]
    /\ UNCHANGED <<ctor, verifier, holder, loop, installed, call>>

\* ... .await
ReaderAcquire(r) ==
    /\ readers[r].pc = "waiting"
    /\ CanAcquire(r)
    /\ holder' = Some(r)
    /\ waitq' = Tail(waitq)
    /\ readers' = [readers EXCEPT ![r].pc = "holding", ![r].seen = verifier]
    /\ UNCHANGED <<ctor, verifier, loop, installed, call>>

\* A variant of the call that empties the key map when it rejects a token.
ReaderVerify_evicts(r) ==
    /\ readers[r].pc = "holding"
    /\ readers' = [readers EXCEPT ![r].pc = "verified",
                                  ![r].out = Some(verify(Unwrap(verifier), Unwrap(readers[r].token)))]
    /\ verifier' = IF verify(Unwrap(verifier), Unwrap(readers[r].token)).result = None
                   THEN Some(set_keys(Unwrap(verifier), << >>))
                   ELSE verifier
    /\ UNCHANGED <<ctor, holder, waitq, loop, installed, call>>

\* verifier.verify(token)
ReaderVerify(r) ==
    /\ readers[r].pc = "holding"
    /\ readers' = [readers EXCEPT ![r].pc = "verified",
                                  ![r].out = Some(verify(Unwrap(verifier), Unwrap(readers[r].token)))]
    /\ UNCHANGED <<ctor, verifier, holder, waitq, loop, installed, call>>

\* A variant of the return that leaks the guard.
ReaderReturn_leaks(r) ==
    /\ readers[r].pc = "verified"
    /\ readers' = [readers EXCEPT ![r] = IdleReader]
    /\ UNCHANGED <<ctor, verifier, holder, waitq, loop, installed, call>>

\* the guard is dropped and the result returned
ReaderReturn(r) ==
    /\ readers[r].pc = "verified"
    /\ holder' = None
    /\ readers' = [readers EXCEPT ![r] = IdleReader]
    /\ UNCHANGED <<ctor, verifier, waitq, loop, installed, call>>

Next ==
    \/ NewWithUrl
    \/ InitialFetchOk
    \/ InitialFetchErr
    \/ LoopIssueFetch
    \/ LoopFetchOk
    \/ LoopFetchErr
    \/ LoopAcquire
    \/ LoopSetKeys
    \/ LoopRelease
    \/ TimePasses
    \/ LoopWake
    \/ \E r \in Readers : ReaderCall(r)
    \/ \E r \in Readers : ReaderAcquire(r)
    \/ \E r \in Readers : ReaderVerify(r)
    \/ \E r \in Readers : ReaderReturn(r)

Spec == Init /\ [][Next]_vars

\* The scheduling the loop's progress rests on: tokio runs a runnable task, a
\* request ends in a response or an error, a timer fires, the Mutex is FIFO, and
\* a verify call that holds the lock runs to its end.
Fairness ==
    /\ WF_vars(LoopIssueFetch)
    /\ WF_vars(LoopFetchOk \/ LoopFetchErr)
    /\ WF_vars(LoopAcquire)
    /\ WF_vars(LoopSetKeys)
    /\ WF_vars(LoopRelease)
    /\ WF_vars(TimePasses)
    /\ WF_vars(LoopWake)
    /\ \A r \in Readers : WF_vars(ReaderAcquire(r))
    /\ \A r \in Readers : WF_vars(ReaderVerify(r))
    /\ \A r \in Readers : WF_vars(ReaderReturn(r))

FairSpec == Spec /\ Fairness

(***************************************************************************)
(* Properties of the verifier alone (checked under VerifierSpec).           *)
(***************************************************************************)
\* The key of `keys` a lookup of `kid` must give: the last one with that kid.
LastWithKid(keys, kid) ==
    LET idx == { i \in 1..Len(keys) : keys[i].kid = kid }
    IN  IF idx = {} THEN None
        ELSE Some(keys[CHOOSE i \in idx : \A j \in idx : j <= i])

TheVerifier == Unwrap(verifier)
TheInstalled == Unwrap(installed)
TheCall == Unwrap(call)
IsCall(op) == call # None /\ TheCall.op = op

\* C3: a verifier built from L resolves each kid of L to the last key of L with
\* that kid and resolves no other kid, both in its map and in what get_key returns.
C3_BuiltResolvesLastWins ==
    (installed # None /\ TheInstalled.by = "new") =>
        /\ \A kid \in Kids :
             get_key(TheVerifier, kid) = LastWithKid(TheInstalled.keys, kid)
        /\ IsCall("get_key") =>
             /\ TheCall.ret = LastWithKid(TheInstalled.keys, TheCall.key_id)
             /\ (TheCall.key_id \notin KidsOf(TheInstalled.keys) <=> TheCall.ret = None)
             /\ TheCall.ret # None =>
                  \E i \in 1..Len(TheInstalled.keys) :
                      /\ TheInstalled.keys[i] = Unwrap(TheCall.ret)
                      /\ TheInstalled.keys[i].kid = TheCall.key_id

\* C3 witness: L holds two different keys with one kid and get_key returned the later.
C3_Witness ==
    /\ installed # None /\ TheInstalled.by = "new"
    /\ Len(TheInstalled.keys) = 2
    /\ TheInstalled.keys[1].kid = TheInstalled.keys[2].kid
    /\ TheInstalled.keys[1] # TheInstalled.keys[2]
    /\ IsCall("get_key")
    /\ TheCall.key_id = TheInstalled.keys[1].kid
    /\ TheCall.ret = Some(TheInstalled.keys[2])

\* C2: after set_keys(L2) a kid that only the replaced map resolved is unresolvable,
\* every kid of L2 resolves to L2's (last) key with that kid, and an empty L2
\* leaves no kid resolvable.
C2_SetKeysReplaces ==
    (installed # None /\ TheInstalled.by = "set_keys") =>
        /\ \A kid \in TheInstalled.before \ KidsOf(TheInstalled.keys) :
             get_key(TheVerifier, kid) = None
        /\ \A kid \in KidsOf(TheInstalled.keys) :
             /\ get_key(TheVerifier, kid) # None
             /\ get_key(TheVerifier, kid) = LastWithKid(TheInstalled.keys, kid)
        /\ TheInstalled.keys = << >> => \A kid \in Kids : get_key(TheVerifier, kid) = None
        /\ IsCall("get_key") =>
             TheCall.ret = LastWithKid(TheInstalled.keys, TheCall.key_id)

\* C2 witness: set_keys gave a non-empty list without a kid that was resolvable
\* before, and get_key of that kid returned none.
C2_Witness ==
    /\ installed # None /\ TheInstalled.by = "set_keys"
    /\ TheInstalled.keys # << >>
    /\ IsCall("get_key")
    /\ TheCall.key_id \in TheInstalled.before \ KidsOf(TheInstalled.keys)
    /\ TheCall.ret = None

\* What the claims say of a token, read off the token, the installed list and the config.
KeyFor(token) ==
    IF token.hdr = "ok" /\ token.kid # None
    THEN LastWithKid(TheInstalled.keys, Unwrap(token.kid))
    ELSE None

KeyUsable(key) == key.alg \in KnownAlgorithms /\ key.n \in Base64Url /\ key.e \in Base64Url

AudienceAndIssuerMatch(token) ==
    /\ token.aud = TheVerifier.config.audience
    /\ token.iss = TheVerifier.config.issuer

SignedByUsableKey(token) ==
    /\ KeyFor(token) # None
    /\ KeyUsable(Unwrap(KeyFor(token)))
    /\ SignatureValid(token, Unwrap(KeyFor(token)), Unwrap(KeyFor(token)).alg)
    /\ token.exp = "future"

\* C7: verify returns no claims when the token's audience or issuer differs from
\* the verifier's config, whatever else holds of the token.
C7_AudienceIssuerMismatchRejected ==
    IsCall("verify") =>
        (~AudienceAndIssuerMatch(TheCall.token) => TheCall.out.result = None)

\* C7 witness: a token with a resolvable kid, a valid signature and not expired,
\* whose audience alone differs, was rejected.
C7_Witness ==
    /\ IsCall("verify")
    /\ SignedByUsableKey(TheCall.token)
    /\ TheCall.token.aud # TheVerifier.config.audience
    /\ TheCall.token.iss = TheVerifier.config.issuer
    /\ TheCall.out.result = None

\* C8: verify returns the token's own claims when the header parses with a kid,
\* the kid resolves, the key's alg is known, its n and e make a key, the signature
\* is valid under it, audience and issuer match and the token is not expired.
C8_ValidTokenAccepted ==
    IsCall("verify") =>
        ((SignedByUsableKey(TheCall.token) /\ AudienceAndIssuerMatch(TheCall.token)) =>
            /\ TheCall.out.result = Some(ClaimsOf(TheCall.token))
            /\ Unwrap(TheCall.out.result).sub = TheCall.token.sub
            /\ Unwrap(TheCall.out.result).aud = TheVerifier.config.audience
            /\ Unwrap(TheCall.out.result).iss = TheVerifier.config.issuer)

\* C8 witness: such a token was verified against a map of two kids and accepted.
C8_Witness ==
    /\ IsCall("verify")
    /\ KidsOf(TheInstalled.keys) = Kids
    /\ SignedByUsableKey(TheCall.token)
    /\ AudienceAndIssuerMatch(TheCall.token)
    /\ TheCall.out.result # None

\* The token's kid resolves to a key of a known alg whose n and e make no key.
MalformedKeyMaterial(token) ==
    /\ KeyFor(token) # None
    /\ Unwrap(KeyFor(token)).alg \in KnownAlgorithms
    /\ ~(Unwrap(KeyFor(token)).n \in Base64Url /\ Unwrap(KeyFor(token)).e \in Base64Url)

\* C9 as stated: every rejection makes observable exactly what the rejection of a
\* token with a malformed header does: the absence value and no log record.
C9_RejectionsIndistinguishable ==
    (IsCall("verify") /\ TheCall.out.result = None) =>
        TheCall.out = verify(TheVerifier, MalformedToken)

\* C9 as amended: a rejection returns the absence value and logs nothing, except
\* that a rejection because the key's n and e make no verification key logs one
\* error record naming InvalidDecodingKey; an accepted token logs nothing.
C9_RejectionsLogOnlyKeyDefect ==
    IsCall("verify") =>
        /\ TheCall.out.result \in {None, Some(ClaimsOf(TheCall.token))}
        /\ TheCall.out.result # None => TheCall.out.logged = << >>
        /\ TheCall.out.result = None =>
             IF MalformedKeyMaterial(TheCall.token)
             THEN /\ Len(TheCall.out.logged) = 1
                  /\ TheCall.out.logged[1].level = "error"
                  /\ TheCall.out.logged[1].msg = "InvalidDecodingKey"
             ELSE TheCall.out.logged = << >>

\* C9 witness: a rejected token whose rejection did emit a log record, and the
\* verifier also rejects the malformed-header token without one.
C9_Witness ==
    /\ IsCall("verify")
    /\ TheCall.out.result = None
    /\ TheCall.out.logged # << >>
    /\ verify(TheVerifier, MalformedToken) = Outcome(None, << >>)

\* The token's kid resolves to a key whose alg is not a known algorithm name or
\* whose n and e make no verification key.
DefectiveKey(token) ==
    /\ KeyFor(token) # None
    /\ ~KeyUsable(Unwrap(KeyFor(token)))

\* C18: when the token's kid resolves to a defective key, verify returns no claims
\* for this and for every other token carrying that kid, and decode_token_with_key
\* ends in the key's error, UnknownKeyAlgorithm or InvalidDecodingKey, which it
\* returns before the signature check; InvalidSignature is what a check yields.
C18_KeyDefectFailsClosed ==
    (IsCall("verify") /\ DefectiveKey(TheCall.token)) =>
        LET key == Unwrap(KeyFor(TheCall.token))
        IN  /\ TheCall.out.result = None
            /\ \A token \in AllTokens :
                  token.kid = TheCall.token.kid =>
                     /\ verify(TheVerifier, token).result = None
                     /\ decode_token_with_key(TheVerifier, key, token).result =
                          IF key.alg \notin KnownAlgorithms
                          THEN Err("UnknownKeyAlgorithm")
                          ELSE Err("InvalidDecodingKey")

\* C18 witness: verify rejected a token that is unexpired, carries the verifier's
\* audience and issuer and is signed with the modulus of the key its kid
\* resolves to, because that key's alg is not a known algorithm name.
C18_Witness ==
    /\ IsCall("verify")
    /\ DefectiveKey(TheCall.token)
    /\ Unwrap(KeyFor(TheCall.token)).alg \notin KnownAlgorithms
    /\ TheCall.token.signer = Unwrap(KeyFor(TheCall.token)).n
    /\ TheCall.token.exp = "future"
    /\ AudienceAndIssuerMatch(TheCall.token)
    /\ TheCall.out.result = None

(***************************************************************************)
(* Properties of the coordinator (checked under Spec and FairSpec).         *)
(***************************************************************************)
InFlight(r) == readers[r].pc \in {"holding", "verified"}
Verified(r) == readers[r].pc = "verified"
TokenOf(r) == Unwrap(readers[r].token)
OutOf(r) == Unwrap(readers[r].out)

\* C1: a verify call in flight reads one and the same verifier from the moment it
\* has the lock to its return, the refresh task is not inside its set_keys section
\* meanwhile, and the key map any state exposes is the map of exactly one fetched
\* key list: the one before the refresh until set_keys, the fetched one after.
C1_ReadersSeeOneGeneration ==
    /\ verifier # None =>
         /\ TheVerifier.keys = keys_to_map(TheInstalled.keys)
         /\ loop.pc \in {"awaiting", "locking", "locked"} => verifier = loop.before
         /\ loop.pc \in {"installed", "sleeping"} /\ loop.fetched # None =>
              TheVerifier.keys = keys_to_map(Unwrap(loop.fetched).keys)
    /\ \A r \in Readers :
         InFlight(r) =>
            /\ holder = Some(r)
            /\ loop.pc \notin {"locked", "installed"}
            /\ readers[r].seen = verifier
            /\ Verified(r) => OutOf(r) = verify(Unwrap(readers[r].seen), TokenOf(r))

\* C1 witness: a verify call has evaluated its token against the map installed by
\* a refresh while the refresh task, with a different key list fetched, waits for
\* the lock behind it.
C1_Witness ==
    \E r \in Readers :
        /\ Verified(r)
        /\ TheInstalled.by = "set_keys"
        /\ loop.pc = "locking"
        /\ keys_to_map(Unwrap(loop.fetched).keys) # TheVerifier.keys
        /\ TheVerifier.keys # EmptyMap

\* C5: a failed initial fetch is fatal (no verifier, no refresh loop, no verify
\* call, no JwkAuth), and the loop runs only after a successful initial fetch
\* built the verifier.
C5_InitialFetchFailureFatal ==
    /\ ctor.fetch \notin {"", "Ok"} =>
         /\ ctor.pc = "panicked"
         /\ verifier = None
         /\ loop.pc = "notstarted"
         /\ \A r \in Readers : readers[r].pc = "idle"
         /\ holder = None /\ waitq = << >>
    /\ ctor.pc = "panicked" => ctor.fetch \in {"RequestError", "ReponseBodyError"}
    /\ loop.pc # "notstarted" => ctor.pc = "done" /\ ctor.fetch = "Ok" /\ verifier # None
    /\ (\E r \in Readers : readers[r].pc # "idle") => ctor.pc = "done" /\ verifier # None

\* C5 witness: the initial fetch ended in the ResponseBody error and construction panicked.
C5_Witness ==
    /\ ctor.pc = "panicked"
    /\ ctor.fetch = "ReponseBodyError"

\* C6: a verify call whose token names a kid that the key list current while it
\* holds the lock does not contain returns no claims.
C6_UnknownKidRejected ==
    \A r \in Readers :
        (Verified(r) /\ TokenOf(r).kid # None) =>
            /\ Unwrap(TokenOf(r).kid) \notin KidsOf(TheInstalled.keys) => OutOf(r).result = None
            /\ Unwrap(TokenOf(r).kid) \notin DOMAIN TheVerifier.keys => OutOf(r).result = None

\* C6 witness: a token of the project, signed by the key its kid named in the
\* previous key list, is rejected after a refresh installed a non-empty list
\* without that kid.
C6_Witness ==
    \E r \in Readers :
        /\ Verified(r)
        /\ TheInstalled.by = "set_keys"
        /\ TheInstalled.keys # << >>
        /\ Unwrap(TokenOf(r).kid) \in TheInstalled.before \ KidsOf(TheInstalled.keys)
        /\ AudienceAndIssuerMatch(TokenOf(r))
        /\ OutOf(r).result = None

\* The loop sleeps in an iteration whose fetch failed / is in the iteration after one.
FailedIteration == loop.pc = "sleeping" /\ loop.fetched = None

AfterFailedIteration == loop.pc \in {"fetch", "awaiting"} /\ loop.prev = "Err"

\* C10: in an iteration whose fetch failed the verifier is as it was when the
\* iteration began, the refresh task neither holds nor waits for the lock, and
\* every verify result is the one the last installed key list gives.
C10_FailedRefreshInvisible ==
    (FailedIteration \/ AfterFailedIteration) =>
        /\ FailedIteration => verifier = loop.before /\ loop.delay = FAILURE_DELAY
        /\ holder # Some(Refresher)
        /\ \A i \in 1..Len(waitq) : waitq[i] # Refresher
        /\ TheVerifier =
             JwkVerifier_new(TheInstalled.keys, ctor.project_id, issuer_of(ctor.project_id))
        /\ \A r \in Readers :
             Verified(r) =>
                OutOf(r) = verify(JwkVerifier_new(TheInstalled.keys, ctor.project_id,
                                                  issuer_of(ctor.project_id)),
                                  TokenOf(r))

\* C10 witness: after a refresh installed keys, a later iteration failed, and a
\* verify call made in it accepted its token.
C10_Witness ==
    /\ FailedIteration
    /\ TheInstalled.by = "set_keys"
    /\ \E r \in Readers : Verified(r) /\ OutOf(r).result # None

LoopStarted == loop.pc # "notstarted"

\* C4: the started loop never leaves its cycle: whatever a fetch ends in, the loop
\* goes to sleep, and from every state of the started loop another fetch is issued.
C4_LoopKeepsFetching ==
    /\ [](loop.pc \in {"notstarted", "fetch", "awaiting", "locking", "locked", "installed", "sleeping"})
    /\ [](LoopStarted => <>(loop.pc = "awaiting"))
    /\ [](loop.pc = "awaiting" => <>(loop.pc = "sleeping"))
    /\ [](loop.pc = "sleeping" => <>(loop.pc = "fetch"))

\* C4 witness: a fetch is in flight in the iteration after one whose fetch failed.
C4_Witness ==
    /\ loop.pc = "awaiting"
    /\ loop.prev = "Err"

\* C11: once constructed with project id p, the verifier's configuration has
\* audience p and issuer "https://securetoken.google.com/" followed by p, in
\* every reachable state: no refresh, failed fetch or verify call changes it.
C11_ConfigFixed ==
    /\ ctor.pc = "start" => ctor.project_id = ""
    /\ ctor.pc # "start" => ctor.project_id \in ProjectIds
    /\ verifier # None =>
          /\ TheVerifier.config.audience = ctor.project_id
          /\ TheVerifier.config.issuer = "https://securetoken.google.com/" \o ctor.project_id

\* C11 witness: constructed for project "other", a refresh has replaced the keys,
\* a later fetch has failed and a verify call has returned in its sleep.
C11_Witness ==
    /\ ctor.project_id = "other"
    /\ FailedIteration
    /\ TheInstalled.by = "set_keys"
    /\ loop.prev = "Ok"
    /\ \E r \in Readers : Verified(r)

RefresherBusy == loop.pc \in {"locked", "installed"}

\* C12: the refresh task holds the lock only around set_keys: never while the
\* initial or a periodic fetch is in flight, never while it sleeps, and it is not
\* queued for the lock then either, so no verify call waits behind a fetch or a sleep.
C12_LockOnlyAroundSetKeys ==
    /\ holder = Some(Refresher) => RefresherBusy
    /\ ~RefresherBusy =>
          /\ holder # Some(Refresher)
          /\ loop.pc # "locking" => \A i \in 1..Len(waitq) : waitq[i] # Refresher
    /\ ctor.pc = "fetching" => holder = None /\ waitq = << >>
    /\ \A r \in Readers :
          (readers[r].pc = "waiting" /\ Head(waitq) = r /\ holder # None) =>
             \/ holder = Some(Refresher) /\ RefresherBusy
             \/ \E q \in Readers : holder = Some(q) /\ InFlight(q)

\* C12 witness: while the loop sleeps after a successful refresh, and while its
\* fetch is in flight, a verify call holds the lock.
C12_Witness ==
    /\ loop.pc \in {"sleeping", "awaiting"}
    /\ \E r \in Readers : holder = Some(r) /\ readers[r].pc = "holding"
    /\ \E q \in Readers : readers[q].pc = "waiting"

\* C13: the verifier is written only by the constructor's installation and by the
\* set_keys step of an iteration whose fetch succeeded, which replaces the key map
\* by the fetched keys and leaves the configuration; every step of a verify call
\* leaves the verifier as it was.
C13_OnlySetKeysWrites ==
    [][ /\ verifier' # verifier =>
             \/ verifier = None /\ ctor.pc = "fetching" /\ ctor'.pc = "done"
             \/ /\ loop.pc = "locked" /\ loop'.pc = "installed"
                /\ holder = Some(Refresher)
                /\ loop.fetched # None
                /\ verifier' = Some([keys |-> keys_to_map(Unwrap(loop.fetched).keys),
                                     config |-> TheVerifier.config])
        /\ (loop.pc = "awaiting" /\ loop'.pc = "sleeping") => verifier' = verifier
        /\ \A r \in Readers : readers'[r] # readers[r] => verifier' = verifier
      ]_vars

\* C13 witness: after a refresh replaced the keys, a verify call has rejected its
\* token while another call waits, and the verifier is as the call found it.
C13_Witness ==
    /\ installed # None
    /\ TheInstalled.by = "set_keys"
    /\ loop.pc = "sleeping" /\ loop.fetched # None
    /\ \E r, q \in Readers :
          /\ Verified(r) /\ OutOf(r).result = None
          /\ readers[r].seen = verifier
          /\ readers[q].pc = "waiting"

\* C14: the delay of a sleep is determined by the fetch of its own iteration: the
\* fetched validity after a success, with the fetched keys installed before the
\* sleep begins, and 10 seconds after a failure; and an iteration after the first
\* issues its fetch only when the loop has slept the whole delay chosen before.
C14_DelayFromLastFetch ==
    /\ loop.pc = "sleeping" =>
          /\ loop.slept <= loop.delay
          /\ loop.fetched = None => loop.delay = FAILURE_DELAY
          /\ loop.fetched # None =>
                /\ loop.delay = Unwrap(loop.fetched).validity
                /\ verifier # None
                /\ TheVerifier.keys = keys_to_map(Unwrap(loop.fetched).keys)
                /\ holder # Some(Refresher)
    /\ (loop.pc \in {"fetch", "awaiting"} /\ loop.prev = "Err") =>
          loop.due = FAILURE_DELAY /\ loop.waited >= FAILURE_DELAY
    /\ (loop.pc \in {"fetch", "awaiting"} /\ loop.prev = "Ok") =>
          loop.due > 0 /\ loop.waited >= loop.due

\* C14 witness: the loop has slept the 10 seconds of a failed fetch, in the
\* iteration after one whose successful fetch made it sleep 60 seconds.
C14_Witness ==
    /\ FailedIteration
    /\ loop.delay = FAILURE_DELAY /\ loop.slept = FAILURE_DELAY
    /\ loop.prev = "Ok" /\ loop.due = DEFAULT_TIMEOUT /\ loop.waited = DEFAULT_TIMEOUT

\* C15: the first fetch of the loop is issued only when the validity of the
\* constructor's fetch has elapsed since construction.
C15_FirstFetchAfterInitialValidity ==
    (loop.pc = "awaiting" /\ loop.prev = "") => loop.waited >= loop.due

\* The Cache-Control header cc has the directive "max-age=value" among its directives.
HasMaxAge(cc, value) ==
    /\ cc # None
    /\ \E i \in 1..Len(Unwrap(cc)) : Unwrap(cc)[i] = Directive("max-age", Some(value))

\* C16: a fetch that gets a response with a key-set body succeeds whatever its
\* Cache-Control header; its validity is N when the header has a parsable
\* max-age=N among its directives (20045 for max-age=20045) and exactly 60 when
\* the header is absent, has no max-age, or has one that does not parse.
C16_ValidityFromMaxAge ==
    (IsCall("fetch_keys") /\ TheCall.response.transport = "ok" /\ TheCall.response.body # None) =>
        LET cc == TheCall.response.cache_control
            ret == TheCall.out.ret
        IN  /\ ret.ok
            /\ ret.value.validity =
                  IF HasMaxAge(cc, "20045") THEN 20045
                  ELSE IF HasMaxAge(cc, "20") THEN 20
                  ELSE 60

\* C16 witness: a fetch of "must-revalidate, max-age=20045" returned validity 20045.
C16_Witness ==
    /\ IsCall("fetch_keys")
    /\ TheCall.response.cache_control =
          Some(<< Directive("must-revalidate", None), Directive("max-age", Some("20045")) >>)
    /\ TheCall.out.ret.ok
    /\ TheCall.out.ret.value.validity = 20045

\* C17: one call of fetch_keys issues one request and ends in exactly one of
\* three outcomes decided by that request's answer: the Request error when the
\* transport failed, the ResponseBody error when the body is not a key set, and
\* otherwise a key set with the body's keys in their order.
C17_OneRequestThreeOutcomes ==
    IsCall("fetch_keys") =>
        LET response == TheCall.response
            ret == TheCall.out.ret
        IN  /\ TheCall.out.requests = 1
            /\ response.transport # "ok" => ret = Err("RequestError")
            /\ (response.transport = "ok" /\ response.body = None) => ret = Err("ReponseBodyError")
            /\ (response.transport = "ok" /\ response.body # None) =>
                  /\ ret.ok
                  /\ ret.value.keys = Unwrap(response.body)
            /\ ~ret.ok => ret.error \in {"RequestError", "ReponseBodyError"}

\* C17 witness: a fetch whose response has a max-age but no key-set body ended in
\* the ResponseBody error after one request.
C17_Witness ==
    /\ IsCall("fetch_keys")
    /\ TheCall.response.transport = "ok"
    /\ HasMaxAge(TheCall.response.cache_control, "20")
    /\ TheCall.response.body = None
    /\ TheCall.out = [ret |-> Err("ReponseBodyError"), requests |-> 1]

\* The lock is held exactly by a verify call between its acquisition and its
\* return, or by the refresh task between its acquisition and the end of its arm.
LockHeldOnlyInUse ==
    /\ \A r \in Readers : holder = Some(r) <=> InFlight(r)
    /\ holder = Some(Refresher) <=> RefresherBusy

\* The refresh has taken effect: the fetched keys are the verifier's, the arm has
\* ended and the refresh task no longer holds the lock.
RefreshDone ==
    /\ loop.pc = "sleeping" /\ loop.fetched # None
    /\ TheVerifier.keys = keys_to_map(Unwrap(loop.fetched).keys)
    /\ holder # Some(Refresher)

\* A verify call completes only from the state in which it holds the lock and has
\* verified, and completing frees the lock.
ReturnsFreeTheLock ==
    \A r \in Readers :
        (readers[r].pc # "idle" /\ readers'[r].pc = "idle") =>
            /\ readers[r].pc = "verified"
            /\ holder = Some(r)
            /\ holder' = None

\* C19: under fair scheduling every verify call that waits for the lock completes,
\* which it does only by acquiring the lock, verifying and freeing the lock; every
\* successful refresh fetch is followed by its set_keys taking effect and the
\* refresh task freeing the lock; and the lock is held by nobody who is not
\* between acquiring it and completing.
C19_LockLiveness ==
    /\ []LockHeldOnlyInUse
    /\ [][ReturnsFreeTheLock]_vars
    /\ \A r \in Readers : [](readers[r].pc = "waiting" => <>(readers[r].pc = "idle"))
    /\ [](loop.pc = "locking" => <>RefreshDone)

\* C19 witness: every caller and the refresh task contend: one verify call holds
\* the lock, the refresh task is queued behind another call with fetched keys.
C19_Witness ==
    /\ loop.pc = "locking"
    /\ Len(waitq) = NumReaders
    /\ waitq[Len(waitq)] = Refresher
    /\ \E r \in Readers : holder = Some(r)

\* The loop has slept the whole validity of the keys its last successful fetch
\* installed, and no fetch has succeeded since.
ValidityElapsed ==
    /\ loop.pc \in {"fetch", "awaiting", "sleeping"}
    /\ loop.prev = "Ok"
    /\ loop.fetched = None
    /\ loop.waited >= loop.due

\* C20: the key map changes only in the set_keys step of a successful refresh,
\* never by the passing of time, a wake-up or a failed fetch; and once the
\* validity of the installed keys has elapsed without a later successful fetch,
\* the verifier still holds them and a verify call still accepts every token
\* they sign that is unexpired and carries the configured audience and issuer.
C20_KeysNeverExpire ==
    /\ [][ (verifier # None /\ Unwrap(verifier').keys # TheVerifier.keys) =>
              /\ loop.pc = "locked" /\ loop'.pc = "installed"
              /\ loop.fetched # None
         ]_vars
    /\ [](ValidityElapsed =>
            /\ TheInstalled.by = "set_keys"
            /\ TheVerifier.keys = keys_to_map(TheInstalled.keys)
            /\ \A r \in Readers :
                  (Verified(r) /\ SignedByUsableKey(TokenOf(r)) /\ AudienceAndIssuerMatch(TokenOf(r))) =>
                      OutOf(r).result = Some(ClaimsOf(TokenOf(r))))

\* C20 witness: the validity of the installed keys and the 10 seconds after a
\* failed refresh have elapsed, and a verify call has accepted a token signed
\* with those keys.
C20_Witness ==
    /\ ValidityElapsed
    /\ FailedIteration
    /\ loop.due > 0
    /\ loop.slept = FAILURE_DELAY
    /\ DOMAIN TheVerifier.keys # {}
    /\ \E r \in Readers : Verified(r) /\ OutOf(r).result # None

=============================================================================
